---- MODULE Spec2Model ----
(***************************************************************************)
(* H20Fetcher (src/main.go): a resumable batch job that looks up the water *)
(* supplier of every postcode of a corpus of CSV files.                    *)
(*                                                                         *)
(* The model follows main(): the scheduler goroutine (pcMain), the worker  *)
(* goroutines it starts with `go func(pc, idx)`, the two files the process *)
(* persists (progress.json, water_suppliers_results.json) and process      *)
(* crashes and restarts.  Indices are 0-based as in the Go code; the       *)
(* element at Go index j of a TLA+ sequence s is s[j + 1].                 *)
(***************************************************************************)
EXTENDS Integers, Sequences, FiniteSets, Bags, TLC

\* ------------------------------------------------------------------------
\* Program constants
\* ------------------------------------------------------------------------

maxRetries == 3

maxGoroutines == 3

\* `len(results)%10 == 0`: the period of the in-file results flush.
flushEvery == 10

\* ------------------------------------------------------------------------
\* Bounds of the model
\* ------------------------------------------------------------------------

\* Number of process runs (the first start plus crashes/re-runs).
MaxRuns == 2

\* ------------------------------------------------------------------------
\* Values
\* ------------------------------------------------------------------------

\* The zero value of a Go string.
Empty == ""

NotFound == "Not Found"

\* A scraped supplier name.
Scraped == "Water Co"

\* PostcodeResult, reduced to the two fields the scheduler reads.
PostcodeResult(postcode, supplier) == [Postcode |-> postcode, Supplier |-> supplier]

\* var result PostcodeResult (the zero value).
ZeroResult == PostcodeResult(Empty, Empty)

\* []PostcodeResult, for `results`, `existingResults` and the content of the
\* results file: the program appends to it, takes its length, ranges over it
\* to build the skip-set and writes it out whole; it never reads the order
\* of the records, so the slice is kept as the bag of its records.
NoRecords == EmptyBag

\* append(records, record)
AppendRecord(records, record) == records (+) SetToBag({ record })

\* len(records)
NumRecords(records) == BagCardinality(records)

\* &Progress{} (the zero value).
ZeroProgress == [LastFile |-> Empty, LastPostcode |-> Empty, Completed |-> FALSE]

\* One CSV file of ALLCODECSV: its base name and its first column.
CsvFile(name, postcodes) == [name |-> name, postcodes |-> postcodes]

\* The input corpora the model draws from (each already in the order
\* sort.Strings gives the file names).
Corpora ==
    { << CsvFile("a.csv", <<"P1", "P2", "P3", "P4">>) >>,
      << CsvFile("a.csv", <<"P1", "P2", "P3">>), CsvFile("b.csv", <<"P4", "P5">>) >>,
      << CsvFile("a.csv", <<"P3">>), CsvFile("b.csv", <<"P1", "P2", "P3", "P4">>) >>,
      << CsvFile("a.csv", <<"P1", "P1">>) >> }

\* ------------------------------------------------------------------------
\* Lookup Client and Retry Wrapper
\* ------------------------------------------------------------------------

\* What one POST to the endpoint can come back with.
Responses ==
    { "TransportError", "BadStatus", "BadJSON", "ShortArray", "NoMarkers", "Supplier" }

\* extractSupplierDetails: the "name" entry of the details map.
extractSupplierDetails(response) ==
    IF response = "Supplier" THEN Scraped ELSE NotFound

\* getSupplierForPostcode: the record one attempt returns.  A transport
\* error, a non-OK status and unparsable JSON return PostcodeResult{Postcode:
\* postcode}, whose Supplier is the empty string.  (A JSON array shorter than
\* three elements panics at ajaxResponse[2]; see Panics.)
getSupplierForPostcode(postcode, response) ==
    IF response \in {"TransportError", "BadStatus", "BadJSON"}
    THEN PostcodeResult(postcode, Empty)
    ELSE PostcodeResult(postcode, extractSupplierDetails(response))

\* ajaxResponse[2] on an array of fewer than three elements.
Panics(response) == response = "ShortArray"

\* The sequences of responses the attempts of one wrapped lookup may meet.
ResponseSeqs == [1..maxRetries -> Responses]

RECURSIVE RetryLoop(_, _, _, _, _, _)

\* The loop without its `return result` on a found supplier.
NoEarlyReturnLoop(postcode, responses, retries, i, result, calls) ==
    IF i >= retries
    THEN [panicked |-> FALSE, result |-> result, calls |-> calls]
    ELSE IF Panics(responses[i + 1])
         THEN [panicked |-> TRUE, result |-> result, calls |-> calls + 1]
         ELSE RetryLoop(postcode, responses, retries, i + 1,
                        getSupplierForPostcode(postcode, responses[i + 1]), calls + 1)

\* getSupplierForPostcodeWithRetries, iteration i (0-based) onward, with
\* `result` the record of the previous attempt and `calls` the number of
\* calls of getSupplierForPostcode made so far.
RetryLoop(postcode, responses, retries, i, result, calls) ==
    IF i >= retries
    THEN [panicked |-> FALSE, result |-> result, calls |-> calls]
    ELSE IF Panics(responses[i + 1])
         THEN [panicked |-> TRUE, result |-> result, calls |-> calls + 1]
         ELSE LET r == getSupplierForPostcode(postcode, responses[i + 1])
              IN  IF r.Supplier # NotFound
                  THEN [panicked |-> FALSE, result |-> r, calls |-> calls + 1]
                  ELSE RetryLoop(postcode, responses, retries, i + 1, r, calls + 1)

\* getSupplierForPostcodeWithRetries(postcode, retries), the attempts meeting
\* `responses`: whether it panicked, the record returned, the calls made.
getSupplierForPostcodeWithRetries(postcode, responses, retries) ==
    RetryLoop(postcode, responses, retries, 0, ZeroResult, 0)

\* Every way a call of the wrapper with maxRetries can end for a postcode:
\* a panic, or the record it returns.
WrappedLookups(postcode) ==
    { [panicked |-> out.panicked, result |-> out.result] :
        out \in { getSupplierForPostcodeWithRetries(postcode, responses, maxRetries) :
                    responses \in ResponseSeqs } }

\* Longer corpora, followed for a single run (SpecOneRun): a file whose
\* third and sixth postcodes also stand in an earlier file, and a file that
\* follows a file of eight postcodes.
LongCorpora ==
    { << CsvFile("a.csv", <<"P1", "P2">>),
         CsvFile("b.csv", <<"P3", "P4", "P1", "P5", "P6", "P2", "P7", "P8", "P9">>) >>,
      << CsvFile("a.csv", <<"P1", "P2", "P3", "P4", "P5", "P6", "P7", "P8">>),
         CsvFile("b.csv", <<"P9", "P10", "P11", "P12">>) >> }

\* The postcodes of the corpora.
CorpusPostcodes ==
    UNION { UNION { { corpus[n].postcodes[k] : k \in 1..Len(corpus[n].postcodes) } :
                      n \in 1..Len(corpus) } :
              corpus \in Corpora \cup LongCorpora }

\* WrappedLookups, tabulated once for the postcodes of the corpora.
WrappedLookupsOf == [postcode \in CorpusPostcodes |-> WrappedLookups(postcode)]

\* ------------------------------------------------------------------------
\* State
\* ------------------------------------------------------------------------

VARIABLES
    files,              \* the input corpus (read-only)
    progressFile,       \* progress.json on disk
    resultsFile,        \* water_suppliers_results.json on disk
    run,                \* number of the current process run
    prevEnd,            \* how the previous run ended: "completed" (main returned),
                        \* "betweenBatches" (killed between two batches, at
                        \* index j of file `file`), "other" (anything else, or
                        \* no previous run)
    pcMain,             \* position of the main goroutine
    progress,           \* *Progress shared by main and the workers
    processedPostcodes, \* the skip-set
    results,            \* the in-memory committed collection
    i,                  \* file loop index
    j,                  \* postcode loop index
    startPostcodeIdx,   \* resume index within the current file
    workers,            \* the worker goroutines that have not returned
    resultsChan,        \* per file: the buffer of its current resultsChan
    errorsChan,         \* per file: the number of errors in its current errorsChan
    startSkip,          \* the skip-set as built at startup of this run
    startProgress,      \* the ledger as loaded at startup of this run
    dispatched,         \* positions <<i, j>> handed to a worker in this run
    rPostcode,          \* retry wrapper on its own: argument postcode
    rRetries,           \* retry wrapper on its own: argument retries
    rResponses,         \* retry wrapper on its own: what the attempts meet
    rOut,               \* retry wrapper on its own: its outcome
    rPc                 \* retry wrapper on its own: "idle", "call", "returned", "panicked"

mainVars ==
    << files, progressFile, resultsFile, run, prevEnd, pcMain, progress,
       processedPostcodes, results, i, j, startPostcodeIdx, workers, resultsChan,
       errorsChan, startSkip, startProgress, dispatched >>

retryVars == << rPostcode, rRetries, rResponses, rOut, rPc >>

vars == << mainVars, retryVars >>

\* ------------------------------------------------------------------------
\* Helpers of main()
\* ------------------------------------------------------------------------

FileIdx == 0..(Len(files) - 1)

FileName(f) == files[f + 1].name

\* getPostcodesFromCSV(files[f]).
getPostcodesFromCSV(f) == files[f + 1].postcodes

\* The Go indices of a sequence.
IndicesOf(s) == 0..(Len(s) - 1)

Min(S) == CHOOSE x \in S : \A y \in S : x <= y

\* "Find starting point based on progress": the index of the first file
\* whose base name is progress.LastFile, 0 when there is none.
StartIdx(fs, prog) ==
    LET hits == { k \in IndicesOf(fs) : fs[k + 1].name = prog.LastFile }
    IN  IF prog.LastFile # Empty /\ hits # {} THEN Min(hits) ELSE 0

\* "Find starting postcode in current file": one past the first occurrence
\* of progress.LastPostcode, 0 when the file is not progress.LastFile or
\* the postcode is not in it.
\* The same search resuming AT the recorded postcode (j instead of j + 1).
StartAtLastPostcode(filename, postcodes, prog) ==
    LET hits == { k \in IndicesOf(postcodes) : postcodes[k + 1] = prog.LastPostcode }
    IN  IF filename = prog.LastFile /\ prog.LastPostcode # Empty /\ hits # {}
        THEN Min(hits)
        ELSE 0

StartPostcodeIdx(filename, postcodes, prog) ==
    LET hits == { k \in IndicesOf(postcodes) : postcodes[k + 1] = prog.LastPostcode }
    IN  IF filename = prog.LastFile /\ prog.LastPostcode # Empty /\ hits # {}
        THEN Min(hits) + 1
        ELSE 0

\* A dispatch loop that skips nothing.
NeverProcessed(postcode, processed) == FALSE

\* `if processedPostcodes[postcode]`: the skip test of the dispatch loop.
AlreadyProcessed(postcode, processed) == postcode \in processed

\* processedPostcodes built from existingResults.
SkipSetOf(existingResults) ==
    { record.Postcode : record \in BagToSet(existingResults) }

\* The goroutine `go func(pc string, idx int)` with the variables its
\* closure captures (filename through `file`, startPostcodeIdx through
\* `start`) and its position `at`.
Worker(f, idx, pc, start, at, result) ==
    [file |-> f, idx |-> idx, pc |-> pc, start |-> start, at |-> at, result |-> result]

WorkersOf(f) == { w \in workers : w.file = f }

\* Workers whose retry-wrapped lookup has not returned yet.
InFlight == { w \in workers : w.at = "lookup" }

\* `semaphore <- struct{}{}` can proceed: the file's semaphore, of capacity
\* maxGoroutines, is held by every worker of the file that has not returned.
SemaphoreFree(f) == Cardinality(WorkersOf(f)) < maxGoroutines

\* `resultsChan <- result` can proceed: the buffer is not full.
ChanHasRoom(f) == Len(resultsChan[f]) < maxGoroutines

\* The barrier test of the dispatch loop.
IsBarrier(jj, postcodes) ==
    jj % maxGoroutines = maxGoroutines - 1 \/ jj = Len(postcodes) - 1

\* The same test letting the worker of the resume index through.
UpdatesProgressFromStart(idx, start) == idx >= start

\* The worker's test before it touches the ledger.
UpdatesProgress(idx, start) == idx > start

\* A collect loop that commits whatever it receives.
CommitsAnything(result) == TRUE

\* The scheduler's test before it commits a collected record.
Commits(result) == result.Supplier # Empty /\ result.Supplier # NotFound

NoPrevEnd == [kind |-> "other", file |-> 0, j |-> 0]

\* The memory of a process that is not running.
VolatileReset ==
    /\ progress' = ZeroProgress
    /\ processedPostcodes' = {}
    /\ results' = NoRecords
    /\ i' = 0
    /\ j' = 0
    /\ startPostcodeIdx' = 0
    /\ workers' = {}
    /\ resultsChan' = [f \in FileIdx |-> << >>]
    /\ errorsChan' = [f \in FileIdx |-> 0]
    /\ startSkip' = {}
    /\ startProgress' = ZeroProgress
    /\ dispatched' = {}

\* ------------------------------------------------------------------------
\* Initial state: a corpus, no progress file, no results file
\* ------------------------------------------------------------------------

InitMain ==
    /\ files \in Corpora
    /\ progressFile = ZeroProgress
    /\ resultsFile = NoRecords
    /\ run = 1
    /\ prevEnd = NoPrevEnd
    /\ pcMain = "start"
    /\ progress = ZeroProgress
    /\ processedPostcodes = {}
    /\ results = NoRecords
    /\ i = 0
    /\ j = 0
    /\ startPostcodeIdx = 0
    /\ workers = {}
    /\ resultsChan = [f \in FileIdx |-> << >>]
    /\ errorsChan = [f \in FileIdx |-> 0]
    /\ startSkip = {}
    /\ startProgress = ZeroProgress
    /\ dispatched = {}

RetryIdle ==
    /\ rPostcode = Empty
    /\ rRetries = 0
    /\ rResponses = << >>
    /\ rOut = [panicked |-> FALSE, result |-> ZeroResult, calls |-> 0]
    /\ rPc = "idle"

Init == InitMain /\ RetryIdle

\* ------------------------------------------------------------------------
\* The main goroutine
\* ------------------------------------------------------------------------

diskVars == << progressFile, resultsFile >>

runVars == << files, run, prevEnd >>

histVars == << startSkip, startProgress >>

\* The `for j` statement after iteration jj: the next iteration or, past
\* the last postcode, the code after the loop.
AdvanceFrom(jj, postcodes) ==
    /\ j' = jj + 1
    /\ pcMain' = IF jj + 1 < Len(postcodes) THEN "loop" ELSE "eof"

\* main, up to the file loop: load the ledger and the results, build the
\* skip-set, find the file to start at.
Startup ==
    /\ pcMain = "start"
    /\ progress' = progressFile
    /\ processedPostcodes' = SkipSetOf(resultsFile)
    /\ results' = resultsFile
    /\ i' = StartIdx(files, progressFile)
    /\ pcMain' = "file"
    /\ startSkip' = SkipSetOf(resultsFile)
    /\ startProgress' = progressFile
    /\ UNCHANGED << diskVars, runVars, j, startPostcodeIdx, workers, resultsChan,
                    dispatched, errorsChan, retryVars >>

\* Head of one iteration of the file loop: read the file, find the postcode
\* to start at, make the file's channels, semaphore and wait group.
OpenFile ==
    /\ pcMain = "file"
    /\ i < Len(files)
    /\ LET postcodes == getPostcodesFromCSV(i)
           start == StartPostcodeIdx(FileName(i), postcodes, progress)
       IN  /\ startPostcodeIdx' = start
           /\ j' = start
           /\ pcMain' = IF start < Len(postcodes) THEN "loop" ELSE "eof"
    /\ resultsChan' = [resultsChan EXCEPT ![i] = << >>]
    /\ errorsChan' = [errorsChan EXCEPT ![i] = 0]
    /\ UNCHANGED << diskVars, runVars, histVars, progress, processedPostcodes,
                    results, i, workers, dispatched, retryVars >>

\* The file loop is over.
FilesDone ==
    /\ pcMain = "file"
    /\ i >= Len(files)
    /\ pcMain' = "finish"
    /\ UNCHANGED << diskVars, runVars, histVars, progress, processedPostcodes,
                    results, i, j, startPostcodeIdx, workers, resultsChan,
                    dispatched, errorsChan, retryVars >>

\* "Skip if already processed": `continue`, which also passes over the
\* barrier test at the end of the loop body.
Skip ==
    /\ pcMain = "loop"
    /\ LET postcodes == getPostcodesFromCSV(i)
       IN  /\ AlreadyProcessed(postcodes[j + 1], processedPostcodes)
           /\ AdvanceFrom(j, postcodes)
    /\ UNCHANGED << diskVars, runVars, histVars, progress, processedPostcodes,
                    results, i, startPostcodeIdx, workers, resultsChan,
                    dispatched, errorsChan, retryVars >>

\* wg.Add(1), acquire the semaphore, start the worker; then the barrier
\* test: collect, or go on to the next postcode.
Dispatch ==
    /\ pcMain = "loop"
    /\ LET postcodes == getPostcodesFromCSV(i)
           postcode == postcodes[j + 1]
       IN  /\ ~AlreadyProcessed(postcode, processedPostcodes)
           /\ SemaphoreFree(i)
           /\ workers' = workers \cup
                  { Worker(i, j, postcode, startPostcodeIdx, "lookup", ZeroResult) }
           /\ dispatched' = dispatched \cup { << i, j >> }
           /\ IF IsBarrier(j, postcodes)
              THEN pcMain' = "collect" /\ j' = j
              ELSE AdvanceFrom(j, postcodes)
    /\ UNCHANGED << diskVars, runVars, histVars, progress, processedPostcodes,
                    results, i, startPostcodeIdx, resultsChan, errorsChan, retryVars >>

\* One iteration of `for result := range resultsChan`.
Collect ==
    /\ pcMain = "collect"
    /\ resultsChan[i] # << >>
    /\ LET result == Head(resultsChan[i])
       IN  IF Commits(result)
           THEN /\ processedPostcodes' = processedPostcodes \cup { result.Postcode }
                /\ results' = AppendRecord(results, result)
           ELSE UNCHANGED << processedPostcodes, results >>
    /\ resultsChan' = [resultsChan EXCEPT ![i] = Tail(@)]
    /\ UNCHANGED << diskVars, runVars, histVars, pcMain, progress, i, j,
                    startPostcodeIdx, workers, dispatched, errorsChan, retryVars >>

\* wg.Wait() has returned and resultsChan is closed and drained: the range
\* loop ends.  Then the periodic save, the log of one pending error, the
\* reset of both channels, the next postcode.
CollectDone ==
    /\ pcMain = "collect"
    /\ WorkersOf(i) = {}
    /\ resultsChan[i] = << >>
    /\ resultsFile' = IF NumRecords(results) % flushEvery = 0 THEN results ELSE resultsFile
    /\ errorsChan' = [errorsChan EXCEPT ![i] = 0]
    /\ AdvanceFrom(j, getPostcodesFromCSV(i))
    /\ UNCHANGED << progressFile, runVars, histVars, progress, processedPostcodes,
                    results, i, startPostcodeIdx, workers, resultsChan, dispatched,
                    retryVars >>

\* "Save results after completing each file".
EofFlush ==
    /\ pcMain = "eof"
    /\ resultsFile' = results
    /\ IF i < Len(files) - 1
       THEN pcMain' = "clear" /\ i' = i
       ELSE pcMain' = "file" /\ i' = i + 1
    /\ UNCHANGED << progressFile, runVars, histVars, progress, processedPostcodes,
                    results, j, startPostcodeIdx, workers, resultsChan, dispatched,
                    errorsChan, retryVars >>

\* "If we've completed a file, clear the last postcode".
ClearLastPostcode ==
    /\ pcMain = "clear"
    /\ progress' = [progress EXCEPT !.LastPostcode = Empty]
    /\ pcMain' = "clearSave"
    /\ UNCHANGED << diskVars, runVars, histVars, processedPostcodes, results, i, j,
                    startPostcodeIdx, workers, resultsChan, dispatched, errorsChan, retryVars >>

\* saveProgress(progress) after the clear; then the next file.
ClearSave ==
    /\ pcMain = "clearSave"
    /\ progressFile' = progress
    /\ pcMain' = "file"
    /\ i' = i + 1
    /\ UNCHANGED << resultsFile, runVars, histVars, progress, processedPostcodes,
                    results, j, startPostcodeIdx, workers, resultsChan, dispatched,
                    errorsChan, retryVars >>

\* "Mark as completed".
MarkCompleted ==
    /\ pcMain = "finish"
    /\ progress' = [progress EXCEPT !.Completed = TRUE]
    /\ pcMain' = "finalSave"
    /\ UNCHANGED << diskVars, runVars, histVars, processedPostcodes, results, i, j,
                    startPostcodeIdx, workers, resultsChan, dispatched, errorsChan, retryVars >>

\* saveProgress(progress) of the final state.
SaveFinal ==
    /\ pcMain = "finalSave"
    /\ progressFile' = progress
    /\ pcMain' = "exit"
    /\ UNCHANGED << resultsFile, runVars, histVars, progress, processedPostcodes,
                    results, i, j, startPostcodeIdx, workers, resultsChan, dispatched,
                    errorsChan, retryVars >>

\* main returns: the process exits and takes the remaining goroutines along.
Exit ==
    /\ pcMain = "exit"
    /\ pcMain' = "done"
    /\ prevEnd' = [kind |-> "completed", file |-> 0, j |-> 0]
    /\ VolatileReset
    /\ UNCHANGED << diskVars, files, run, retryVars >>

\* ------------------------------------------------------------------------
\* The worker goroutines
\* ------------------------------------------------------------------------

\* The worker returns: wg.Done() and the release of the semaphore.
Returned(w) == workers \ { w }

Moved(w, at) == (workers \ { w }) \cup { [w EXCEPT !.at = at] }

\* result := getSupplierForPostcodeWithRetries(pc, maxRetries), for any
\* responses the attempts may meet.  A panic in an attempt ends the process.
WorkerLookup(w) ==
    /\ w.at = "lookup"
    /\ \E out \in WrappedLookupsOf[w.pc] :
             IF out.panicked
             THEN /\ pcMain' = "down"
                  /\ prevEnd' = NoPrevEnd
                  /\ VolatileReset
                  /\ UNCHANGED << diskVars, files, run >>
             ELSE /\ workers' = (workers \ { w }) \cup
                         { [w EXCEPT !.at = "send", !.result = out.result] }
                  /\ UNCHANGED << diskVars, runVars, histVars, pcMain, progress,
                                  processedPostcodes, results, i, j, startPostcodeIdx,
                                  resultsChan, errorsChan, dispatched >>
    /\ UNCHANGED retryVars

\* resultsChan <- result, then the test `idx > startPostcodeIdx`.
WorkerSend(w) ==
    /\ w.at = "send"
    /\ ChanHasRoom(w.file)
    /\ resultsChan' = [resultsChan EXCEPT ![w.file] = Append(@, w.result)]
    /\ workers' = IF UpdatesProgress(w.idx, w.start)
                  THEN Moved(w, "setFile")
                  ELSE Returned(w)
    /\ UNCHANGED << diskVars, runVars, histVars, pcMain, progress, processedPostcodes,
                    results, i, j, startPostcodeIdx, dispatched, errorsChan, retryVars >>

\* progress.LastFile = filename
WorkerSetFile(w) ==
    /\ w.at = "setFile"
    /\ progress' = [progress EXCEPT !.LastFile = FileName(w.file)]
    /\ workers' = Moved(w, "setPostcode")
    /\ UNCHANGED << diskVars, runVars, histVars, pcMain, processedPostcodes, results,
                    i, j, startPostcodeIdx, resultsChan, dispatched, errorsChan, retryVars >>

\* progress.LastPostcode = pc
WorkerSetPostcode(w) ==
    /\ w.at = "setPostcode"
    /\ progress' = [progress EXCEPT !.LastPostcode = w.pc]
    /\ workers' = Moved(w, "save")
    /\ UNCHANGED << diskVars, runVars, histVars, pcMain, processedPostcodes, results,
                    i, j, startPostcodeIdx, resultsChan, dispatched, errorsChan, retryVars >>

\* saveProgress(progress), then the worker returns.
WorkerSave(w) ==
    /\ w.at = "save"
    /\ progressFile' = progress
    /\ workers' = Returned(w)
    /\ UNCHANGED << resultsFile, runVars, histVars, pcMain, progress,
                    processedPostcodes, results, i, j, startPostcodeIdx, resultsChan,
                    dispatched, errorsChan, retryVars >>

\* ------------------------------------------------------------------------
\* Crash and restart of the process
\* ------------------------------------------------------------------------

Running == pcMain \notin { "start", "down", "done", "fatal" }

\* The scheduler stands between two batches of file i: every worker it has
\* dispatched has returned and every result has been collected.
BetweenBatches ==
    /\ pcMain = "loop"
    /\ j > startPostcodeIdx
    /\ j % maxGoroutines = 0
    /\ workers = {}
    /\ resultsChan[i] = << >>

\* The process is killed; only the two files survive.
Crash ==
    /\ Running
    /\ pcMain' = "down"
    /\ prevEnd' = IF BetweenBatches
                  THEN [kind |-> "betweenBatches", file |-> i, j |-> j]
                  ELSE NoPrevEnd
    /\ VolatileReset
    /\ UNCHANGED << diskVars, files, run, retryVars >>

\* The program is started again on the same corpus and the same two files.
Restart ==
    /\ pcMain \in { "down", "done", "fatal" }
    /\ run < MaxRuns
    /\ run' = run + 1
    /\ pcMain' = "start"
    /\ UNCHANGED << diskVars, files, prevEnd, progress, processedPostcodes, results,
                    i, j, startPostcodeIdx, workers, resultsChan, startSkip,
                    startProgress, dispatched, errorsChan, retryVars >>

\* ------------------------------------------------------------------------
\* Specification of the job
\* ------------------------------------------------------------------------

Next ==
    \/ Startup
    \/ OpenFile
    \/ FilesDone
    \/ Skip
    \/ Dispatch
    \/ Collect
    \/ CollectDone
    \/ EofFlush
    \/ ClearLastPostcode
    \/ ClearSave
    \/ MarkCompleted
    \/ SaveFinal
    \/ Exit
    \/ \E w \in workers : WorkerLookup(w)
    \/ \E w \in workers : WorkerSend(w)
    \/ \E w \in workers : WorkerSetFile(w)
    \/ \E w \in workers : WorkerSetPostcode(w)
    \/ \E w \in workers : WorkerSave(w)
    \/ Crash
    \/ Restart

Spec == Init /\ [][Next]_vars

\* ------------------------------------------------------------------------
\* Specification of the retry wrapper on its own
\* ------------------------------------------------------------------------

RetryPostcodes == { "P1", "P2" }

InitRetry ==
    /\ InitMain
    /\ rPostcode \in RetryPostcodes
    /\ rRetries \in 0..maxRetries
    /\ rResponses \in ResponseSeqs
    /\ rOut = [panicked |-> FALSE, result |-> ZeroResult, calls |-> 0]
    /\ rPc = "call"

\* One call of getSupplierForPostcodeWithRetries(rPostcode, rRetries).
RetryCall ==
    /\ rPc = "call"
    /\ rOut' = getSupplierForPostcodeWithRetries(rPostcode, rResponses, rRetries)
    /\ rPc' = IF rOut'.panicked THEN "panicked" ELSE "returned"
    /\ UNCHANGED << mainVars, rPostcode, rRetries, rResponses >>

NextRetry == RetryCall

SpecRetry == InitRetry /\ [][NextRetry]_vars

\* ------------------------------------------------------------------------
\* Specification of one run of the job on a longer corpus
\* ------------------------------------------------------------------------

\* The two files as a run leaves them that found a supplier for every
\* postcode of the first file and was killed right after it had cleared
\* lastPostcode at the end of that file (ClearSave).
FirstFileDone(corpus) ==
    [progressFile |-> [LastFile |-> corpus[1].name, LastPostcode |-> Empty,
                       Completed |-> FALSE],
     resultsFile |-> SetToBag({ PostcodeResult(corpus[1].postcodes[k], Scraped) :
                                  k \in 1..Len(corpus[1].postcodes) })]

\* The run that follows such a run, at its start.
InitOneRun ==
    /\ files \in LongCorpora
    /\ progressFile = FirstFileDone(files).progressFile
    /\ resultsFile = FirstFileDone(files).resultsFile
    /\ run = 2
    /\ prevEnd = NoPrevEnd
    /\ pcMain = "start"
    /\ progress = ZeroProgress
    /\ processedPostcodes = {}
    /\ results = NoRecords
    /\ i = 0
    /\ j = 0
    /\ startPostcodeIdx = 0
    /\ workers = {}
    /\ resultsChan = [f \in FileIdx |-> << >>]
    /\ errorsChan = [f \in FileIdx |-> 0]
    /\ startSkip = {}
    /\ startProgress = ZeroProgress
    /\ dispatched = {}
    /\ RetryIdle

\* The steps of one run: those of the job, the process not being restarted.
NextOneRun ==
    \/ Startup
    \/ OpenFile
    \/ FilesDone
    \/ Skip
    \/ Dispatch
    \/ Collect
    \/ CollectDone
    \/ EofFlush
    \/ ClearLastPostcode
    \/ ClearSave
    \/ MarkCompleted
    \/ SaveFinal
    \/ Exit
    \/ \E w \in workers : WorkerLookup(w)
    \/ \E w \in workers : WorkerSend(w)
    \/ \E w \in workers : WorkerSetFile(w)
    \/ \E w \in workers : WorkerSetPostcode(w)
    \/ \E w \in workers : WorkerSave(w)
    \/ Crash

SpecOneRun == InitOneRun /\ [][NextOneRun]_vars

\* ------------------------------------------------------------------------
\* Specification of one run of the job whose writes may fail
\* ------------------------------------------------------------------------

\* log.Fatalf: the process exits; only the two files survive.
Fatal ==
    /\ pcMain' = "fatal"
    /\ prevEnd' = NoPrevEnd
    /\ VolatileReset
    /\ UNCHANGED << diskVars, files, run, retryVars >>

\* `errorsChan <- err` can proceed: the buffer is not full.
ErrorsChanHasRoom(f) == errorsChan[f] < maxGoroutines

\* saveProgress(progress) returns an error in the worker: nothing is
\* written, the worker goes on to send the error.
WorkerSaveFails(w) ==
    /\ w.at = "save"
    /\ workers' = Moved(w, "sendError")
    /\ UNCHANGED << diskVars, runVars, histVars, pcMain, progress,
                    processedPostcodes, results, i, j, startPostcodeIdx, resultsChan,
                    dispatched, errorsChan, retryVars >>

\* errorsChan <- fmt.Errorf(...), then the worker returns.
WorkerSendError(w) ==
    /\ w.at = "sendError"
    /\ ErrorsChanHasRoom(w.file)
    /\ errorsChan' = [errorsChan EXCEPT ![w.file] = @ + 1]
    /\ workers' = Returned(w)
    /\ UNCHANGED << diskVars, runVars, histVars, pcMain, progress,
                    processedPostcodes, results, i, j, startPostcodeIdx, resultsChan,
                    dispatched, retryVars >>

\* The periodic save is due and os.WriteFile fails in saveResultsToJSON:
\* log.Fatalf.
CollectDoneSaveFails ==
    /\ pcMain = "collect"
    /\ WorkersOf(i) = {}
    /\ resultsChan[i] = << >>
    /\ NumRecords(results) % flushEvery = 0
    /\ Fatal

\* os.WriteFile fails in the saveResultsToJSON at the end of a file:
\* log.Fatalf.
EofFlushFails ==
    /\ pcMain = "eof"
    /\ Fatal

\* saveProgress(progress) after the clear returns an error: it is logged;
\* then the next file.
ClearSaveFails ==
    /\ pcMain = "clearSave"
    /\ pcMain' = "file"
    /\ i' = i + 1
    /\ UNCHANGED << diskVars, runVars, histVars, progress, processedPostcodes,
                    results, j, startPostcodeIdx, workers, resultsChan, dispatched,
                    errorsChan, retryVars >>

\* saveProgress(progress) of the final state returns an error: it is logged.
SaveFinalFails ==
    /\ pcMain = "finalSave"
    /\ pcMain' = "exit"
    /\ UNCHANGED << diskVars, runVars, histVars, progress, processedPostcodes,
                    results, i, j, startPostcodeIdx, workers, resultsChan, dispatched,
                    errorsChan, retryVars >>

\* The steps of one run, each write succeeding or failing.
NextFailingWrites ==
    \/ Startup
    \/ OpenFile
    \/ FilesDone
    \/ Skip
    \/ Dispatch
    \/ Collect
    \/ CollectDone
    \/ CollectDoneSaveFails
    \/ EofFlush
    \/ EofFlushFails
    \/ ClearLastPostcode
    \/ ClearSave
    \/ ClearSaveFails
    \/ MarkCompleted
    \/ SaveFinal
    \/ SaveFinalFails
    \/ Exit
    \/ \E w \in workers : WorkerLookup(w)
    \/ \E w \in workers : WorkerSend(w)
    \/ \E w \in workers : WorkerSetFile(w)
    \/ \E w \in workers : WorkerSetPostcode(w)
    \/ \E w \in workers : WorkerSave(w)
    \/ \E w \in workers : WorkerSaveFails(w)
    \/ \E w \in workers : WorkerSendError(w)
    \/ Crash

SpecFailingWrites == Init /\ [][NextFailingWrites]_vars

\* ------------------------------------------------------------------------
\* Positions of the corpus
\* ------------------------------------------------------------------------

\* Every <<file index, postcode index>> of the corpus.
Positions ==
    UNION { { << f, k >> : k \in 0..(Len(getPostcodesFromCSV(f)) - 1) } : f \in FileIdx }

PostcodeAt(p) == getPostcodesFromCSV(p[1])[p[2] + 1]

\* p comes before q in the order in which main walks the corpus.
Before(p, q) == p[1] < q[1] \/ (p[1] = q[1] /\ p[2] < q[2])

\* The earliest position of a non-empty set of positions.
FirstOf(S) == CHOOSE p \in S : \A q \in S : p = q \/ Before(p, q)

\* ------------------------------------------------------------------------
\* C1.  A postcode that is in the skip-set when a run starts (it has a
\* record in the results file loaded at startup) is never handed to the
\* retry wrapper during that run: no position dispatched in the run and no
\* live worker carries such a postcode.
\* ------------------------------------------------------------------------

C1_SkipSetNeverLookedUp ==
    /\ \A p \in dispatched : PostcodeAt(p) \notin startSkip
    /\ \A w \in workers : w.pc \notin startSkip

\* A restarted run that has passed over a postcode of its start-up skip-set
\* in the file it is processing and has dispatched lookups as well.
C1_Witness ==
    /\ run > 1
    /\ pcMain = "loop"
    /\ dispatched # {}
    /\ \E k \in startPostcodeIdx..(j - 1) : PostcodeAt(<< i, k >>) \in startSkip

\* ------------------------------------------------------------------------
\* C2.  Resume correctness.  When a run starts with a ledger lastFile = F,
\* lastPostcode = X and X occurs in F (first at index kX), then no position
\* of a file before F and no position of F at or before kX is dispatched,
\* and the first position the run dispatches is the earliest position after
\* <<F, kX>>, in corpus order, whose postcode is not in the start-up
\* skip-set (so the first such postcode of a later file when none is left
\* in F).  "Looked up" is read as "handed to a worker by the scheduler".
\* ------------------------------------------------------------------------

\* Indices of the files named F.
C2_FilesNamed(F) == { f \in FileIdx : FileName(f) = F }

\* Indices of X in file f.
C2_Occurrences(f, X) ==
    { k \in 0..(Len(getPostcodesFromCSV(f)) - 1) : getPostcodesFromCSV(f)[k + 1] = X }

\* The run started from a ledger that names a postcode X of a file F.
C2_Resumed ==
    /\ pcMain \notin { "start", "down", "done" }
    /\ startProgress.LastFile # Empty
    /\ startProgress.LastPostcode # Empty
    /\ C2_FilesNamed(startProgress.LastFile) # {}
    /\ C2_Occurrences(Min(C2_FilesNamed(startProgress.LastFile)),
                      startProgress.LastPostcode) # {}

\* The position <<F, kX>> of the ledger the run started from.
C2_LedgerPos ==
    LET f == Min(C2_FilesNamed(startProgress.LastFile))
    IN  << f, Min(C2_Occurrences(f, startProgress.LastPostcode)) >>

\* The positions after the ledger position that are not in the skip-set.
C2_Remaining ==
    { p \in Positions : Before(C2_LedgerPos, p) /\ PostcodeAt(p) \notin startSkip }

C2_ResumeCorrect ==
    C2_Resumed =>
        /\ \A p \in dispatched : Before(C2_LedgerPos, p)
        /\ dispatched # {} =>
              /\ C2_Remaining # {}
              /\ FirstOf(dispatched) = FirstOf(C2_Remaining)

\* A run resumed in the middle of a file whose first lookup has been
\* dispatched, with earlier and later postcodes left in the file.
C2_Witness ==
    /\ C2_Resumed
    /\ dispatched # {}
    /\ C2_LedgerPos[2] > 0
    /\ FirstOf(dispatched)[1] = C2_LedgerPos[1]

\* A run resumed after the last entry of a file whose first lookup is in
\* the next file.
C2_WitnessNextFile ==
    /\ C2_Resumed
    /\ dispatched # {}
    /\ C2_LedgerPos[2] = Len(getPostcodesFromCSV(C2_LedgerPos[1])) - 1
    /\ FirstOf(dispatched)[1] = C2_LedgerPos[1] + 1

\* ------------------------------------------------------------------------
\* C3.  Crash between two batches.  If the previous run was killed while
\* the scheduler stood between two batches of a file (every worker of the
\* batches so far had returned and every result was collected, the next
\* postcode to handle being index j of file f), the restarted run looks up
\* no position before <<f, j>> and its first lookup is <<f, j>>.
\* ------------------------------------------------------------------------

C3_CrashBetweenBatchesResumesAtNextBatch ==
    prevEnd.kind = "betweenBatches" =>
        /\ \A p \in dispatched : ~Before(p, << prevEnd.file, prevEnd.j >>)
        /\ dispatched # {} => FirstOf(dispatched) = << prevEnd.file, prevEnd.j >>

\* ------------------------------------------------------------------------
\* C4.  At most maxGoroutines lookups are in flight: the workers whose
\* retry-wrapped lookup has not returned number at most maxGoroutines.
\* ------------------------------------------------------------------------

C4_AtMostBInFlight == Cardinality(InFlight) <= maxGoroutines

\* ------------------------------------------------------------------------
\* C5.  No two records of the in-memory committed collection, and no two
\* records of the results file, have the same postcode (stated for the
\* first run, whose loaded results file is empty and so free of
\* duplicates).
\* ------------------------------------------------------------------------

NoDuplicates(records) ==
    /\ \A r \in BagToSet(records) : CopiesIn(r, records) = 1
    /\ \A r, q \in BagToSet(records) : r # q => r.Postcode # q.Postcode

C5_OneRecordPerPostcode ==
    run = 1 => NoDuplicates(results) /\ NoDuplicates(resultsFile)

\* ------------------------------------------------------------------------
\* C6.  Idempotence: a run that follows a run which finished and persisted
\* completed = true, on the same corpus and files, performs no lookup.
\* ------------------------------------------------------------------------

C6_NoLookupAfterCompletion ==
    (prevEnd.kind = "completed" /\ progressFile.Completed) => dispatched = {}

\* ------------------------------------------------------------------------
\* C7.  The retry wrapper calls the Lookup Client exactly n times, n being
\* the index of the first attempt whose supplier name is not "Not Found",
\* or the number of attempts allowed when there is none; it returns the
\* record of the n-th attempt.  (Checked under SpecRetry.)
\* ------------------------------------------------------------------------

\* The attempts, among the first `retries`, whose supplier name is not
\* "Not Found".
C7_Successes ==
    { k \in 1..rRetries :
        getSupplierForPostcode(rPostcode, rResponses[k]).Supplier # NotFound }

C7_N == IF C7_Successes # {} THEN Min(C7_Successes) ELSE rRetries

C7_RetryStopsAtFirstSuccess ==
    rPc = "returned" =>
        /\ rOut.calls = C7_N
        /\ C7_N > 0 => rOut.result = getSupplierForPostcode(rPostcode, rResponses[C7_N])

\* The wrapper has returned at the second of three allowed attempts, after
\* a first attempt that found nothing.
C7_Witness ==
    /\ rPc = "returned"
    /\ rRetries = maxRetries
    /\ rOut.calls = 2
    /\ rOut.result.Supplier = Scraped

\* ------------------------------------------------------------------------
\* C8.  The ledger's lastPostcode is set only for committed records: no
\* worker whose wrapped lookup ended with supplier "Not Found" executes
\* progress.LastPostcode = pc (a worker at "save" has just done so and is
\* about to write the ledger to disk).
\* ------------------------------------------------------------------------

C8_LedgerOnlyForCommitted ==
    \A w \in workers :
        w.result.Supplier = NotFound => w.at \notin { "save" }

\* ------------------------------------------------------------------------
\* C9.  Batch barrier.  With batch N of a file the lookups of indices
\* N*maxGoroutines .. N*maxGoroutines + maxGoroutines - 1 (the grouping the
\* barrier test of the dispatch loop makes), no lookup of a later batch is
\* dispatched while a worker of an earlier batch of the file has not
\* returned: the live workers of a file all belong to one batch.
\* ------------------------------------------------------------------------

BatchOf(idx) == idx \div maxGoroutines

C9_BatchBarrier ==
    \A w, v \in workers :
        w.file = v.file => BatchOf(w.idx) = BatchOf(v.idx)

\* ------------------------------------------------------------------------
\* C10.  A crash loses at most the in-flight batch.  Whenever the scheduler
\* is not collecting a batch, every committed record is in the results file
\* or a restart from the files as they are now would look its postcode up
\* again (the postcode occurs at or after the position the restart resumes
\* at).
\* ------------------------------------------------------------------------

InResultsFile(record) == BagIn(record, resultsFile)

\* The position a run started now would begin at.
RestartPos ==
    LET f == StartIdx(files, progressFile)
    IN  << f, StartPostcodeIdx(FileName(f), getPostcodesFromCSV(f), progressFile) >>

RestartLooksUp(postcode) ==
    \E p \in Positions : ~Before(p, RestartPos) /\ PostcodeAt(p) = postcode

C10_CrashLosesAtMostInFlightBatch ==
    (Running /\ pcMain # "collect") =>
        \A record \in BagToSet(results) :
            InResultsFile(record) \/ RestartLooksUp(record.Postcode)

\* ------------------------------------------------------------------------
\* C11.  Termination.  In no reachable state is the scheduler blocked at
\* `semaphore <- struct{}{}` (the postcode at hand is to be looked up and
\* every slot of the file's semaphore is held) while every worker holding a
\* slot is blocked at `resultsChan <- result` on a full buffer: from such a
\* state nobody receives from the channel, so the run never finishes.
\* (Checked under SpecOneRun.)
\* ------------------------------------------------------------------------

\* The scheduler stands at the acquire of the semaphore and cannot pass.
SchedulerBlockedOnSemaphore ==
    /\ pcMain = "loop"
    /\ ~AlreadyProcessed(PostcodeAt(<< i, j >>), processedPostcodes)
    /\ ~SemaphoreFree(i)

\* Every worker of file f stands at the send and cannot pass.
WorkersBlockedOnSend(f) ==
    /\ ~ChanHasRoom(f)
    /\ \A w \in WorkersOf(f) : w.at = "send"

C11_NoSendAcquireDeadlock ==
    ~(SchedulerBlockedOnSemaphore /\ WorkersBlockedOnSend(i))

\* ------------------------------------------------------------------------
\* C12.  Files are strictly serialized.  Once the scheduler has left the
\* dispatch loop of a file (it is at the end-of-file flush of the file, is
\* clearing lastPostcode after it, or has gone on to a later file or to the
\* final ledger write), no worker of that file is still running and no
\* record sent on its channel is left uncollected.
\* ------------------------------------------------------------------------

\* The scheduler is past the dispatch loop of file f.
PastDispatchLoop(f) ==
    /\ Running
    /\ \/ f < i
       \/ f = i /\ pcMain \in { "eof", "clear", "clearSave" }

C12_FilesSerialized ==
    \A f \in FileIdx :
        PastDispatchLoop(f) => WorkersOf(f) = {} /\ resultsChan[f] = << >>

\* ------------------------------------------------------------------------
\* C13.  Single ledger writer.  At most one goroutine is in the middle of
\* a ledger write (it has assigned a field of the shared Progress and has
\* not yet finished saveProgress), and no worker is in the middle of one
\* while the lookup of another worker of its batch has not returned.
\* ------------------------------------------------------------------------

\* The workers that have assigned progress.LastFile and have not returned
\* from saveProgress.
WritingLedger == { w \in workers : w.at \in { "setPostcode", "save" } }

\* The scheduler has assigned a field of progress and has not yet returned
\* from saveProgress.
MainWritingLedger == pcMain \in { "clearSave", "finalSave" }

C13_SingleLedgerWriter ==
    /\ Cardinality(WritingLedger) + (IF MainWritingLedger THEN 1 ELSE 0) <= 1
    /\ \A w \in WritingLedger :
           \A v \in InFlight :
               ~(v.file = w.file /\ BatchOf(v.idx) = BatchOf(w.idx))

\* ------------------------------------------------------------------------
\* C14.  A failed attempt is retried.  The retry wrapper returns only after
\* an attempt that yields a scraped supplier name or after all the attempts
\* it is allowed: an attempt that fails with a transport error, a non-OK
\* status or unparsable JSON does not end it early.  (Checked under
\* SpecRetry.)
\* ------------------------------------------------------------------------

C14_FailedAttemptIsRetried ==
    rPc = "returned" =>
        rOut.result.Supplier = Scraped \/ rOut.calls = rRetries

\* ------------------------------------------------------------------------
\* C15.  The retry wrapper always returns a record: whatever the attempts
\* meet (transport failure, non-OK status, malformed JSON, a JSON array too
\* short for the index read, missing markers), a call of the wrapper ends
\* by returning, never by a panic.  (Checked under SpecRetry.)
\* ------------------------------------------------------------------------

C15_WrapperAlwaysReturns == rPc # "call" => rPc = "returned"

\* ------------------------------------------------------------------------
\* C16.  Periodic flush.  The cumulative number of committed records is
\* the size of the committed collection, as `len(results)` counts it.
\* When the scheduler stands between two batches of a file, that number has
\* not reached or passed a multiple of flushEvery that the results file has
\* not: the two counts lie in the same span of flushEvery.  (Checked under
\* SpecOneRun.)
\* ------------------------------------------------------------------------

\* The multiples of flushEvery that n records have reached or passed.
FlushesDue(n) == n \div flushEvery

C16_PeriodicFlush ==
    BetweenBatches =>
        FlushesDue(NumRecords(results)) = FlushesDue(NumRecords(resultsFile))

\* ------------------------------------------------------------------------
\* C17.  completed = true is the terminal ledger state.  Once the scheduler
\* has persisted the ledger with completed = true (it stands between the
\* final saveProgress and its return), no step of the run changes the
\* ledger on disk.
\* ------------------------------------------------------------------------

\* The final saveProgress of main has returned and main has not.
FinalLedgerWritten == pcMain = "exit"

C17_CompletedIsLastLedgerWrite ==
    [][FinalLedgerWritten => progressFile' = progressFile]_vars

\* ------------------------------------------------------------------------
\* C18.  Nothing that was not found is committed.  Every record of the
\* committed collection and of the results file has a supplier name that
\* is neither empty nor "Not Found", and the skip-set holds only postcodes
\* it held at startup or that have such a record: a lookup that returned
\* "Not Found" or an empty name adds nothing to either.
\* ------------------------------------------------------------------------

Found(record) == record.Supplier \notin { Empty, NotFound }

C18_NotFoundNeverCommitted ==
    /\ \A record \in BagToSet(results) : Found(record)
    /\ \A record \in BagToSet(resultsFile) : Found(record)
    /\ processedPostcodes \subseteq
           startSkip \cup { record.Postcode : record \in BagToSet(results) }

\* Between two batches of the first run: a record has been committed, and
\* a postcode that was dispatched, looked up and collected is in neither
\* the skip-set nor the collection.
C18_Witness ==
    /\ run = 1
    /\ BetweenBatches
    /\ results # NoRecords
    /\ \E p \in dispatched :
           /\ PostcodeAt(p) \notin processedPostcodes
           /\ \A record \in BagToSet(results) : record.Postcode # PostcodeAt(p)

\* ------------------------------------------------------------------------
\* C19.  A failed checkpoint write does not halt processing: no failure of
\* a write of the ledger or of the results file ends the process.  (Checked
\* under SpecFailingWrites.)
\* ------------------------------------------------------------------------

\* The process has been ended by log.Fatalf.
HaltedByFatal == pcMain = "fatal"

C19_WriteErrorDoesNotHalt == ~HaltedByFatal

\* ------------------------------------------------------------------------
\* C20.  Ledger guard.  The index at which a run starts a file is the
\* resume index the start-up ledger gives for the file the run starts at,
\* and 0 for every later file.  Every worker that is writing the ledger
\* (it has passed the guard and is assigning lastFile, assigning
\* lastPostcode or saving) looks up a position of its file whose index is
\* greater than that index, whatever the order the workers finish in.
\* ------------------------------------------------------------------------

\* The index at which this run starts, or started, file f.
ResumeIndex(f) ==
    IF f = StartIdx(files, startProgress)
    THEN StartPostcodeIdx(FileName(f), getPostcodesFromCSV(f), startProgress)
    ELSE 0

\* The workers between the guard and the end of saveProgress.
PastLedgerGuard == { w \in workers : w.at \in { "setFile", "setPostcode", "save" } }

C20_LedgerGuard ==
    \A w \in PastLedgerGuard : w.idx > ResumeIndex(w.file)

\* A run resumed in the middle of a file: the position it resumed at has
\* been looked up and its worker has returned, and the worker of a later
\* position has set lastPostcode and is about to save the ledger.
C20_Witness ==
    \E w \in workers :
        /\ w.at = "save"
        /\ ResumeIndex(w.file) > 0
        /\ << w.file, ResumeIndex(w.file) >> \in dispatched
        /\ \A v \in WorkersOf(w.file) : v.idx # ResumeIndex(w.file)

====
